---------------------------- MODULE Spec2Model ----------------------------
(***************************************************************************)
(* The settings window of dcs_liberation: the Auto-UI binder              *)
(* (AutoSettingsLayout and its page/window wrappers), the write-back      *)
(* callbacks of its controls, and the hand-written generator / cheat      *)
(* controls that all call QSettingsWindow.applySettings.  Further          *)
(* scenarios, each with its own specification, cover several binders over  *)
(* one Settings Instance, the boolean_option declaration, the              *)
(* GroundUnitType registry, PilotSettingsBox and the category list of the  *)
(* window.                                                                 *)
(*                                                                         *)
(* Python values: bool -> BOOLEAN, int -> Int, str -> STRING.  A float is  *)
(* held in fixed point, as a whole number of 1/FloatDen units.  A dict is  *)
(* a function; an ordered dict is a sequence of pairs.                     *)
(***************************************************************************)
EXTENDS Integers, Sequences, FiniteSets, TLC

VARIABLES
    registry,     \* the declarations of the Settings class, in declaration order
    settings,     \* game.settings.__dict__ : field name -> value
    phase,        \* "closed" | "open" | "failed" : the QSettingsWindow
    error,        \* the exception that ended the last construction, or "none"
    window,       \* the page / group / grid structure the construction built
    ctl,          \* the value controls of the auto pages : field name -> control
    atBind,       \* settings.__dict__ as it was when the window was constructed
    toggles,      \* per checkbox, the toggles since construction: 0 none,
                  \* 1 an odd number, 2 an even number (two or more)
    hand,         \* the hand-written controls of the window : attribute -> value
    applyResult,  \* how the last applySettings() call ended
    updates,      \* number of GameUpdateSignal.updateGame broadcasts
    binders,      \* several binders over one Settings Instance:
                  \* binder -> its value controls (<<>> while it is not built)
    lastWrite,    \* field -> the value its most recent control event delivered
    args,         \* the arguments of a boolean_option(...) declaration
    fieldSpec,    \* the dataclass field the declaration returned (<<>> before)
    instance,     \* a freshly constructed Settings Instance of that class
    _loaded,      \* GroundUnitType._loaded
    _by_name,     \* GroundUnitType._by_name : variant_id -> unit type
    _by_unit_type, \* GroundUnitType._by_unit_type : DCS type -> list of unit types
    registered,   \* the unit types passed to register(), in call order
    restored,     \* how the last __setstate__ ended, and the instance it left
    box,          \* the controls of a PilotSettingsBox
    categoryModel,\* QSettingsWindow.categoryModel : the rows of the category list
    right_layout, \* QSettingsWindow.right_layout : the stacked pages and its index
    selection     \* the category list's selection model: current row, connected

\* the single settings window and the session's Settings Instance
windowVars == <<phase, error, window, ctl, toggles, hand, applyResult, updates>>
sessionVars == <<registry, settings, atBind>>
binderVars == <<binders, lastWrite>>
declVars == <<args, fieldSpec, instance>>
unitVars == <<_loaded, _by_name, _by_unit_type, registered, restored>>
boxVars == <<box>>
pageVars == <<categoryModel, right_layout, selection>>

vars == <<sessionVars, windowVars, binderVars, declVars, unitVars, boxVars, pageVars>>

\* what the single settings window never touches
notWindow == <<binderVars, declVars, unitVars, boxVars, pageVars>>

None == "None"

\* the parts of the program a scenario leaves out
NoSession == registry = <<>> /\ settings = <<>> /\ atBind = <<>>
NoWindow ==
    /\ phase = "closed" /\ error = "none" /\ window = <<>> /\ ctl = <<>>
    /\ toggles = <<>> /\ hand = <<>> /\ applyResult = "none" /\ updates = 0
NoBinders == binders = <<>> /\ lastWrite = <<>>
NoDeclaration == args = <<>> /\ fieldSpec = <<>> /\ instance = <<>>
NoUnits ==
    /\ _loaded = FALSE /\ _by_name = <<>> /\ _by_unit_type = <<>>
    /\ registered = <<>> /\ restored = <<>>
NoBox == box = <<>>
NoPages == categoryModel = <<>> /\ right_layout = <<>> /\ selection = <<>>

---------------------------------------------------------------------------
(* Bounds of the model.                                                    *)

\* the declared range of the modelled BoundedIntOption
IntMin == 2
IntMax == 4
\* how far outside [IntMin, IntMax] loaded and requested values go
Slack == 1
\* the divisor of the modelled BoundedFloatOption
Divisor == 2
\* broadcasts counted before the counter saturates
MaxUpdates == 2

\* one float unit is 1/FloatDen; FloatDen is a multiple of Divisor
FloatDen == 2 * Divisor

---------------------------------------------------------------------------
(* Python dict helpers.                                                    *)

DictSet(d, k, v) == [x \in (DOMAIN d) \cup {k} |-> IF x = k THEN v ELSE d[x]]

Range(s) == {s[i] : i \in DOMAIN s}

RECURSIVE SelectSeqBy(_, _, _)
\* the subsequence of s whose elements e have key(e) (page or <<page, section>>) = k
SelectSeqBy(s, which, k) ==
    IF s = <<>> THEN <<>>
    ELSE LET h == Head(s)
             key == IF which = "page" THEN h.desc.page
                    ELSE <<h.desc.page, h.desc.section>>
             rest == SelectSeqBy(Tail(s), which, k)
         IN IF key = k THEN <<h>> \o rest ELSE rest

RECURSIVE Distinct(_)
\* s without the later occurrences of a repeated element (first occurrence kept)
Distinct(s) ==
    IF s = <<>> THEN <<>>
    ELSE LET init == Distinct(SubSeq(s, 1, Len(s) - 1))
             last == s[Len(s)]
         IN IF last \in Range(init) THEN init ELSE Append(init, last)

---------------------------------------------------------------------------
(* Option descriptions (game.settings).                                    *)

BooleanOption(page, section, text, detail, invert) ==
    [kind |-> "BooleanOption", page |-> page, section |-> section,
     text |-> text, detail |-> detail, invert |-> invert]

ChoicesOption(page, section, text, detail, choices) ==
    [kind |-> "ChoicesOption", page |-> page, section |-> section,
     text |-> text, detail |-> detail, choices |-> choices]

BoundedIntOption(page, section, text, detail, min, max) ==
    [kind |-> "BoundedIntOption", page |-> page, section |-> section,
     text |-> text, detail |-> detail, min |-> min, max |-> max]

BoundedFloatOption(page, section, text, detail, min, max, divisor) ==
    [kind |-> "BoundedFloatOption", page |-> page, section |-> section,
     text |-> text, detail |-> detail, min |-> min, max |-> max,
     divisor |-> divisor]

\* a description of a kind the binder does not know
OtherOption(page, section, text, detail) ==
    [kind |-> "OptionDescription", page |-> page, section |-> section,
     text |-> text, detail |-> detail]

\* boolean_option that hands text, page, section on in its own parameter order
boolean_option_in_order(text, page, section, default, invert, detail) ==
    [default |-> default,
     desc |-> BooleanOption(text, page, section, detail, invert)]

\* boolean_option(): the dataclass field, its default and its description
boolean_option(text, page, section, default, invert, detail) ==
    [default |-> default,
     desc |-> BooleanOption(page, section, text, detail, invert)]

\* ChoicesOption.text_for_value: the first text, in iteration order, of the value
text_for_value(description, value) ==
    LET c == description.choices
        hits == {i \in DOMAIN c : c[i][2] = value}
    IN IF hits = {} THEN None
       ELSE c[CHOOSE i \in hits : \A j \in hits : i <= j][1]

---------------------------------------------------------------------------
(* The Settings registry (game.settings.Settings): declarations in          *)
(* declaration order, and its three enumeration methods.                    *)

FogChoices == << <<"All units", "all">>, <<"Fog of war", "fog">>,
                 <<"Allies only", "fog">> >>

D_hide_x(page, section) ==
    [name |-> "hide_x"] @@ boolean_option("Show X", page, section, FALSE, TRUE, None)
D_show_y(page, section) ==
    [name |-> "show_y"] @@
    boolean_option("Show Y", page, section, TRUE, FALSE, "Shows Y on the map")
D_fog(page, section) ==
    [name |-> "fog", default |-> "all",
     desc |-> ChoicesOption(page, section, "Map visibility", None, FogChoices)]
D_limit(page, section) ==
    [name |-> "limit", default |-> IntMin,
     desc |-> BoundedIntOption(page, section, "Pilot limit", None, IntMin, IntMax)]
D_income(page, section) ==
    [name |-> "income", default |-> FloatDen,
     desc |-> BoundedFloatOption(page, section, "Income multiplier", None,
                                 FloatDen \div 2, 2 * FloatDen, Divisor)]
D_relic(page, section) ==
    [name |-> "relic", default |-> FALSE,
     desc |-> OtherOption(page, section, "Relic", None)]

RegistryIds == {"display", "campaign", "mixed", "unknown"}

RegistryOf(id) ==
    CASE id = "display" ->
           << D_hide_x("General", "Display"), D_show_y("General", "Display"),
              D_fog("General", "Map") >>
      [] id = "campaign" ->
           << D_limit("Campaign", "Limits"), D_income("Campaign", "Economy") >>
      [] id = "mixed" ->
           << D_show_y("General", "Display"), D_fog("Campaign", "Map"),
              D_hide_x("General", "Display") >>
      [] id = "unknown" ->
           << D_show_y("General", "Display"), D_relic("General", "Display"),
              D_hide_x("General", "Display"), D_limit("Campaign", "Limits") >>

FieldNames(reg) == {reg[i].name : i \in DOMAIN reg}

DescOf(reg, name) == reg[CHOOSE i \in DOMAIN reg : reg[i].name = name].desc

\* Settings.pages(): the pages, in declaration order
Pages(reg) == Distinct([i \in DOMAIN reg |-> reg[i].desc.page])

\* Settings.sections(page): the sections of the page, in declaration order
Sections(reg, page) ==
    LET of == SelectSeqBy(reg, "page", page)
    IN Distinct([i \in DOMAIN of |-> of[i].desc.section])

\* Settings.fields(page, section): the (name, description) pairs, in declaration order
Fields(reg, page, section) ==
    LET of == SelectSeqBy(reg, "section", <<page, section>>)
    IN [i \in DOMAIN of |-> <<of[i].name, of[i].desc>>]

---------------------------------------------------------------------------
(* The Qt widgets the binder uses, as far as the binder uses them.  A       *)
(* widget emits its change signal only when its value really changes.       *)

Clamp(lo, hi, v) == IF v < lo THEN lo ELSE IF v > hi THEN hi ELSE v

QCheckBox == [widget |-> "QCheckBox", checked |-> FALSE, slot |-> None]

setChecked(w, value) == [w EXCEPT !.checked = value]

QComboBox == [widget |-> "QComboBox", items |-> <<>>, index |-> -1, slot |-> None]

\* the first item added to an empty combobox becomes the current one
addItem(w, text, data) ==
    [w EXCEPT !.items = Append(@, <<text, data>>),
              !.index = IF @ = -1 THEN 0 ELSE @]

\* index (from 0) of the first item with this text, -1 when there is none
findText(w, text) ==
    LET hits == {i \in DOMAIN w.items : w.items[i][1] = text}
    IN IF hits = {} THEN -1
       ELSE (CHOOSE i \in hits : \A j \in hits : i <= j) - 1

setCurrentText(w, text) ==
    LET i == findText(w, text)
    IN IF i >= 0 THEN [w EXCEPT !.index = i] ELSE w

itemData(w, index) == w.items[index + 1][2]

QSpinBox == [widget |-> "QSpinBox", minimum |-> 0, maximum |-> 99, value |-> 0,
             slot |-> None]

setMinimum(w, m) ==
    LET hi == IF w.maximum < m THEN m ELSE w.maximum
    IN [w EXCEPT !.minimum = m, !.maximum = hi, !.value = Clamp(m, hi, @)]

setMaximum(w, m) ==
    LET lo == IF w.minimum > m THEN m ELSE w.minimum
    IN [w EXCEPT !.minimum = lo, !.maximum = m, !.value = Clamp(lo, m, @)]

setValue(w, v) == [w EXCEPT !.value = Clamp(w.minimum, w.maximum, v)]

connect(w, slot) == [w EXCEPT !.slot = slot]

\* int(x * divisor) of a float x held as x * FloatDen
ToRaw(x, divisor) == (x * divisor) \div FloatDen

\* qt_ui.widgets.spinsliders.FloatSpinSlider: a spin box over the raw integers
\* int(min * divisor) .. int(max * divisor), starting at int(initial * divisor)
FloatSpinSlider(min, max, initial, divisor) ==
    [widget |-> "FloatSpinSlider", divisor |-> divisor,
     spinner |-> setValue(setMaximum(setMinimum(QSpinBox, ToRaw(min, divisor)),
                                     ToRaw(max, divisor)),
                          ToRaw(initial, divisor))]

\* FloatSpinSlider.value with a floor division: spinner.value() // divisor
FloatValue_floor(w) == (w.spinner.value \div w.divisor) * FloatDen

\* FloatSpinSlider.value: spinner.value() / divisor, as a float
FloatValue(w) == (w.spinner.value * FloatDen) \div w.divisor

---------------------------------------------------------------------------
(* AutoSettingsLayout: one grid per section.  A layout under construction   *)
(* is its cells (row, column) -> item, the value controls it has connected, *)
(* the settings dict as the construction leaves it, and the exception that  *)
(* stopped it.                                                              *)

EmptyLayout(st) == [cells |-> <<>>, ctl |-> <<>>, settings |-> st, error |-> "none"]

addWidget(L, item, row, col) == [L EXCEPT !.cells = DictSet(@, <<row, col>>, item)]

Raise(L, exception) == [L EXCEPT !.error = exception]

Invert(invert, value) == IF invert THEN ~value ELSE value

add_label(L, row, description) ==
    LET text == IF description.detail # None
                THEN <<description.text, description.detail>>
                ELSE <<description.text>>
    IN addWidget(L, [widget |-> "QLabel", text |-> text], row, 0)

\* on_toggle that forgets the inversion on write
on_toggle_plain(st, name, description, value) == DictSet(st, name, value)

\* the write-back closures: the settings dict after the callback ran
on_toggle(st, name, description, value) ==
    DictSet(st, name, Invert(description.invert, value))

\* on_changed that stores the item's text instead of its data
on_changed_combobox_text(st, name, combobox, index) ==
    DictSet(st, name, combobox.items[index + 1][1])

on_changed_combobox(st, name, combobox, index) ==
    DictSet(st, name, itemData(combobox, index))

on_changed_float(st, name, spinner) == DictSet(st, name, FloatValue(spinner))

\* on_changed bound late: it writes the field of the last declaration
on_changed_spinner_late(st, name, value) ==
    DictSet(st, registry[Len(registry)].name, value)

on_changed_spinner(st, name, value) == DictSet(st, name, value)

\* valueChanged that detects a conflict: it drops the event of a spin box that
\* did not show the stored value
valueChanged_unless_stale(st, before, after, name) ==
    IF /\ before.slot = "on_changed"
       /\ after.value # before.value
       /\ st[name] = before.value
    THEN on_changed_spinner(st, name, after.value) ELSE st

\* signal delivery: a control that went from `before` to `after` calls the slot
\* connected to it (when one was) if its value changed; the settings dict after
toggled(st, before, after, name, description) ==
    IF before.slot = "on_toggle" /\ after.checked # before.checked
    THEN on_toggle(st, name, description, after.checked) ELSE st

currentIndexChanged(st, before, after, name) ==
    IF before.slot = "on_changed" /\ after.index # before.index
    THEN on_changed_combobox(st, name, after, after.index) ELSE st

valueChanged(st, before, after, name) ==
    IF before.slot = "on_changed" /\ after.value # before.value
    THEN on_changed_spinner(st, name, after.value) ELSE st

valueChangedFloat(st, before, after, name) ==
    IF before.spinner.slot = "on_changed"
       /\ after.spinner.value # before.spinner.value
    THEN on_changed_float(st, name, after) ELSE st

\* a finished value control joins the layout at (row, 1)
Place(L, row, name, control, st) ==
    addWidget([L EXCEPT !.ctl = DictSet(@, name, control), !.settings = st],
              [widget |-> control.widget, field |-> name], row, 1)

\* add_checkbox_for that shows the stored value without the inversion
add_checkbox_for_plain(L, row, name, description) ==
    IF name \notin DOMAIN L.settings THEN Raise(L, "KeyError")
    ELSE LET checkbox == setChecked(QCheckBox, L.settings[name])
             st == toggled(L.settings, QCheckBox, checkbox, name, description)
         IN Place(L, row, name, connect(checkbox, "on_toggle"), st)

add_checkbox_for(L, row, name, description) ==
    IF name \notin DOMAIN L.settings THEN Raise(L, "KeyError")
    ELSE LET value == Invert(description.invert, L.settings[name])
             checkbox == setChecked(QCheckBox, value)
             st == toggled(L.settings, QCheckBox, checkbox, name, description)
         IN Place(L, row, name, connect(checkbox, "on_toggle"), st)

RECURSIVE AddItems(_, _, _)
AddItems(combobox, choices, i) ==
    IF i > Len(choices) THEN combobox
    ELSE AddItems(addItem(combobox, choices[i][1], choices[i][2]), choices, i + 1)

\* add_combobox_for that forgets setCurrentText
add_combobox_for_first(L, row, name, description) ==
    LET filled == AddItems(QComboBox, description.choices, 1)
    IN IF name \notin DOMAIN L.settings THEN Raise(L, "KeyError")
       ELSE Place(L, row, name, connect(filled, "on_changed"), L.settings)

add_combobox_for(L, row, name, description) ==
    LET filled == AddItems(QComboBox, description.choices, 1)
    IN IF name \notin DOMAIN L.settings THEN Raise(L, "KeyError")
       ELSE LET combobox == setCurrentText(
                    filled, text_for_value(description, L.settings[name]))
                st == currentIndexChanged(L.settings, QComboBox, combobox, name)
            IN Place(L, row, name, connect(combobox, "on_changed"), st)

\* add_float_spin_slider_for that reads with setdefault(name, description.min)
add_float_spin_slider_for_setdefault(L, row, name, description) ==
    LET st == IF name \in DOMAIN L.settings THEN L.settings
              ELSE DictSet(L.settings, name, description.min)
        spinner == FloatSpinSlider(description.min, description.max, st[name],
                                   description.divisor)
    IN Place(L, row, name, [spinner EXCEPT !.spinner = connect(@, "on_changed")], st)

add_float_spin_slider_for(L, row, name, description) ==
    IF name \notin DOMAIN L.settings THEN Raise(L, "KeyError")
    ELSE LET spinner == FloatSpinSlider(description.min, description.max,
                                        L.settings[name], description.divisor)
         IN Place(L, row, name,
                  [spinner EXCEPT !.spinner = connect(@, "on_changed")],
                  L.settings)

\* add_spinner_for that forgets setMaximum
add_spinner_for_nomax(L, row, name, description) ==
    LET ranged == setMinimum(QSpinBox, description.min)
    IN IF name \notin DOMAIN L.settings THEN Raise(L, "KeyError")
       ELSE LET spinner == setValue(ranged, L.settings[name])
                st == valueChanged(L.settings, ranged, spinner, name)
            IN Place(L, row, name, connect(spinner, "on_changed"), st)

\* add_spinner_for that connects on_changed before it calls setValue
add_spinner_for_connected(L, row, name, description) ==
    LET ranged == connect(setMaximum(setMinimum(QSpinBox, description.min),
                                     description.max), "on_changed")
    IN IF name \notin DOMAIN L.settings THEN Raise(L, "KeyError")
       ELSE LET spinner == setValue(ranged, L.settings[name])
                st == valueChanged(L.settings, ranged, spinner, name)
            IN Place(L, row, name, spinner, st)

add_spinner_for(L, row, name, description) ==
    LET ranged == setMaximum(setMinimum(QSpinBox, description.min), description.max)
    IN IF name \notin DOMAIN L.settings THEN Raise(L, "KeyError")
       ELSE LET spinner == setValue(ranged, L.settings[name])
                st == valueChanged(L.settings, ranged, spinner, name)
            IN Place(L, row, name, connect(spinner, "on_changed"), st)

\* the loop body that passes over an unknown description
BindRow_skip(L, row, name, description) ==
    LET labelled == add_label(L, row, description)
    IN CASE description.kind = "BooleanOption" ->
              add_checkbox_for(labelled, row, name, description)
         [] description.kind = "ChoicesOption" ->
              add_combobox_for(labelled, row, name, description)
         [] description.kind = "BoundedFloatOption" ->
              add_float_spin_slider_for(labelled, row, name, description)
         [] description.kind = "BoundedIntOption" ->
              add_spinner_for(labelled, row, name, description)
         [] OTHER -> labelled

\* one turn of the loop of AutoSettingsLayout.__init__
BindRow(L, row, name, description) ==
    LET labelled == add_label(L, row, description)
    IN CASE description.kind = "BooleanOption" ->
              add_checkbox_for(labelled, row, name, description)
         [] description.kind = "ChoicesOption" ->
              add_combobox_for(labelled, row, name, description)
         [] description.kind = "BoundedFloatOption" ->
              add_float_spin_slider_for(labelled, row, name, description)
         [] description.kind = "BoundedIntOption" ->
              add_spinner_for(labelled, row, name, description)
         [] OTHER -> Raise(labelled, "TypeError")

\* enumerate(fields, start=1)
RowOf_from1(i) == i

\* enumerate(fields): the i-th pair (from 1) has row i - 1
RowOf(i) == i - 1

RECURSIVE BindRows(_, _, _)
BindRows(L, fields, i) ==
    IF i > Len(fields) \/ L.error # "none" THEN L
    ELSE BindRows(BindRow(L, RowOf(i), fields[i][1], fields[i][2]), fields, i + 1)

AutoSettingsLayout(reg, page, section, st) ==
    BindRows(EmptyLayout(st), Fields(reg, page, section), 1)

\* AutoSettingsPageLayout: one AutoSettingsGroup per section, in sections(page) order
RECURSIVE AddGroups(_, _, _, _)
AddGroups(P, reg, page, i) ==
    LET sections == Sections(reg, page)
    IN IF i > Len(sections) \/ P.error # "none" THEN P
       ELSE LET L == AutoSettingsLayout(reg, page, sections[i], P.settings)
                group == [title |-> sections[i], cells |-> L.cells]
            IN AddGroups([groups |-> Append(P.groups, group),
                          ctl |-> L.ctl @@ P.ctl,
                          settings |-> L.settings, error |-> L.error],
                         reg, page, i + 1)

AutoSettingsPageLayout(reg, page, st) ==
    AddGroups([groups |-> <<>>, ctl |-> <<>>, settings |-> st, error |-> "none"],
              reg, page, 1)

\* QSettingsWindow.__init__: one AutoSettingsPage per page, in pages() order
RECURSIVE AddPages(_, _, _)
AddPages(W, reg, i) ==
    LET pages == Pages(reg)
    IN IF i > Len(pages) \/ W.error # "none" THEN W
       ELSE LET P == AutoSettingsPageLayout(reg, pages[i], W.settings)
                page == [name |-> pages[i], groups |-> P.groups]
            IN AddPages([pages |-> Append(W.pages, page),
                         ctl |-> P.ctl @@ W.ctl,
                         settings |-> P.settings, error |-> P.error],
                        reg, i + 1)

QSettingsWindow(reg, st) ==
    AddPages([pages |-> <<>>, ctl |-> <<>>, settings |-> st, error |-> "none"],
             reg, 1)

---------------------------------------------------------------------------
(* The hand-written controls (initGeneratorLayout, CheatSettingsBox) and    *)
(* applySettings.                                                           *)

SmokeSpacingMin == 800
SmokeSpacingMax == 24000
CullingDistanceMin == 10
CullingDistanceMax == 10000

\* the attributes the QSettingsWindow instance has once it is constructed
WindowAttrs ==
    {"game", "pluginsPage", "pluginsOptionsPage", "pages",
     "layout", "categoryList", "right_layout", "categoryModel",
     "generatorPage", "generatorLayout", "gameplay", "gameplayLayout",
     "supercarrier", "generate_marks", "generate_dark_kneeboard",
     "never_delay_players", "desired_player_mission_duration",
     "performance", "performanceLayout", "smoke", "smoke_spacing", "red_alert",
     "arti", "moving_units", "infantry", "destroyed_units", "culling",
     "culling_distance", "culling_do_not_cull_carrier",
     "cheatPage", "cheatLayout", "cheat_options", "moneyCheatBox",
     "moneyCheatBoxLayout"}

Stmt(field, attr, control) == [field |-> field, attr |-> attr, control |-> control]

\* the assignments of applySettings, in order: the settings field written, the
\* attribute of the window read for it, and the control whose value is copied
ApplyStmts ==
    << Stmt("player_skill", "playerCoalitionSkill", "playerCoalitionSkill"),
       Stmt("enemy_skill", "enemyCoalitionSkill", "enemyCoalitionSkill"),
       Stmt("enemy_vehicle_skill", "enemyAASkill", "enemyAASkill"),
       Stmt("player_income_multiplier", "player_income", "player_income"),
       Stmt("enemy_income_multiplier", "enemy_income", "enemy_income"),
       Stmt("manpads", "manpads", "manpads"),
       Stmt("labels", "difficultyLabel", "difficultyLabel"),
       Stmt("night_disabled", "noNightMission", "noNightMission"),
       Stmt("map_coalition_visibility", "mapVisibiitySelection",
            "mapVisibiitySelection"),
       Stmt("external_views_allowed", "ext_views", "ext_views"),
       Stmt("battle_damage_assessment", "battleDamageAssessment",
            "battleDamageAssessment"),
       Stmt("generate_marks", "generate_marks", "generate_marks"),
       Stmt("never_delay_player_flights", "never_delay_players",
            "never_delay_players"),
       Stmt("supercarrier", "supercarrier", "supercarrier"),
       Stmt("generate_dark_kneeboard", "generate_dark_kneeboard",
            "generate_dark_kneeboard"),
       Stmt("desired_player_mission_duration", "desired_player_mission_duration",
            "desired_player_mission_duration"),
       Stmt("perf_red_alert_state", "red_alert", "red_alert"),
       Stmt("perf_smoke_gen", "smoke", "smoke"),
       Stmt("perf_smoke_spacing", "smoke_spacing", "smoke_spacing"),
       Stmt("perf_artillery", "arti", "arti"),
       Stmt("perf_moving_units", "moving_units", "moving_units"),
       Stmt("perf_infantry", "infantry", "infantry"),
       Stmt("perf_destroyed_units", "destroyed_units", "destroyed_units"),
       Stmt("perf_culling", "culling", "culling"),
       Stmt("perf_culling_distance", "culling_distance", "culling_distance"),
       Stmt("perf_do_not_cull_carrier", "culling_do_not_cull_carrier",
            "culling_do_not_cull_carrier"),
       Stmt("show_red_ato", "cheat_options", "red_ato_checkbox"),
       Stmt("enable_frontline_cheats", "cheat_options",
            "frontline_cheat_checkbox"),
       Stmt("enable_base_capture_cheat", "cheat_options",
            "base_capture_cheat_checkbox") >>

\* the statements whose control the window really creates
HandStmts == SelectSeq(ApplyStmts, LAMBDA s : s.attr \in WindowAttrs)

HandControls == {s.control : s \in Range(HandStmts)}

HandFields == {s.field : s \in Range(HandStmts)}

HandSpinners == {"smoke_spacing", "culling_distance"}

HandCheckboxes ==
    HandControls \ (HandSpinners \cup {"desired_player_mission_duration"})

FieldOfControl(c) == (CHOOSE s \in Range(HandStmts) : s.control = c).field

\* initGeneratorLayout and CheatSettingsBox.__init__: every control starts at the
\* value of its settings field (the spin boxes clamp it); nothing is emitted
HandInit(st) ==
    [c \in HandControls |->
        CASE c = "smoke_spacing" ->
               Clamp(SmokeSpacingMin, SmokeSpacingMax, st[FieldOfControl(c)])
          [] c = "culling_distance" ->
               Clamp(CullingDistanceMin, CullingDistanceMax, st[FieldOfControl(c)])
          [] OTHER -> st[FieldOfControl(c)]]

\* the defaults of the settings fields behind the hand-written controls
HandDefaults ==
    [f \in HandFields |->
        CASE f = "perf_smoke_spacing" -> SmokeSpacingMin
          [] f = "perf_culling_distance" -> CullingDistanceMin
          [] f = "desired_player_mission_duration" -> 60
          [] OTHER -> FALSE]

\* applySettings from statement i on: each assignment reads an attribute of the
\* window (AttributeError when the window has none of that name) and writes the
\* field; the broadcast follows the last assignment
RECURSIVE ApplyRun(_, _, _, _)
ApplyRun(stmts, i, st, controls) ==
    IF i > Len(stmts) THEN [settings |-> st, raised |-> "none"]
    ELSE IF stmts[i].attr \notin WindowAttrs
         THEN [settings |-> st, raised |-> "AttributeError"]
         ELSE ApplyRun(stmts, i + 1,
                       DictSet(st, stmts[i].field, controls[stmts[i].control]),
                       controls)

applySettings(st, controls) == ApplyRun(ApplyStmts, 1, st, controls)

---------------------------------------------------------------------------
(* The state machine: a game session whose Settings Instance was loaded     *)
(* from a save, and the settings window opened, used and closed over it.    *)

\* values a save may hold for the modelled fields
IntLoads == (IntMin - Slack)..(IntMax + Slack)
FloatLoads == {FloatDen \div 2, FloatDen + 1, 2 * FloatDen + 1}
ChoiceLoads == {FogChoices[i][2] : i \in DOMAIN FogChoices}

\* values the user may ask a control for
IntInputs == (IntMin - Slack)..(IntMax + Slack)
RawInputs(w) == (w.spinner.minimum - Slack)..(w.spinner.maximum + Slack)
HandEventControls == {"supercarrier", "smoke_spacing", "red_ato_checkbox"}

Checkboxes(controls) == {f \in DOMAIN controls : controls[f].widget = "QCheckBox"}

Init ==
    \E id \in RegistryIds, b1 \in BOOLEAN, b2 \in BOOLEAN, c \in ChoiceLoads,
       n \in IntLoads, x \in FloatLoads :
      \E missing \in FieldNames(RegistryOf(id)) \cup {None} :
        LET loaded == [hide_x |-> b1, show_y |-> b2, fog |-> c, limit |-> n,
                       income |-> x, relic |-> FALSE]
            names == FieldNames(RegistryOf(id)) \ {missing}
        IN /\ registry = RegistryOf(id)
           /\ settings = [f \in names |-> loaded[f]] @@ HandDefaults
           /\ atBind = settings
    /\ NoWindow
    /\ NoBinders /\ NoDeclaration /\ NoUnits /\ NoBox /\ NoPages

\* QSettingsWindow(game): the auto pages are bound first, then initUi builds the
\* hand-written pages; an exception leaves no window
OpenWindow ==
    /\ UNCHANGED notWindow
    /\ phase # "open"
    /\ LET W == QSettingsWindow(registry, settings)
       IN /\ window' = W.pages
          /\ ctl' = W.ctl
          /\ settings' = W.settings
          /\ error' = W.error
          /\ phase' = IF W.error = "none" THEN "open" ELSE "failed"
          /\ hand' = IF W.error = "none" THEN HandInit(W.settings) ELSE <<>>
          /\ toggles' = [f \in Checkboxes(W.ctl) |-> 0]
    /\ atBind' = settings
    /\ applyResult' = "none"
    /\ UNCHANGED <<registry, updates>>

CloseWindow ==
    /\ UNCHANGED notWindow
    /\ phase = "open"
    /\ phase' = "closed"
    /\ window' = <<>>
    /\ ctl' = <<>>
    /\ toggles' = <<>>
    /\ hand' = <<>>
    /\ applyResult' = "none"
    /\ UNCHANGED <<registry, settings, error, atBind, updates>>

\* the user clicks an auto checkbox, which emits toggled(checked)
Toggle(f) ==
    /\ UNCHANGED notWindow
    /\ phase = "open"
    /\ f \in Checkboxes(ctl)
    /\ LET checkbox == setChecked(ctl[f], ~ctl[f].checked)
       IN /\ ctl' = [ctl EXCEPT ![f] = checkbox]
          /\ settings' = toggled(settings, ctl[f], checkbox, f, DescOf(registry, f))
    /\ toggles' = [toggles EXCEPT ![f] = IF @ = 2 THEN 1 ELSE @ + 1]
    /\ UNCHANGED <<registry, phase, error, window, atBind, hand, applyResult, updates>>

\* the user picks an item of an auto combobox, which emits
\* currentIndexChanged(index) unless the item was the current one already
SelectText(f, text) ==
    /\ UNCHANGED notWindow
    /\ phase = "open"
    /\ f \in DOMAIN ctl
    /\ ctl[f].widget = "QComboBox"
    /\ text \in {ctl[f].items[i][1] : i \in DOMAIN ctl[f].items}
    /\ LET combobox == setCurrentText(ctl[f], text)
       IN /\ ctl' = [ctl EXCEPT ![f] = combobox]
          /\ settings' = currentIndexChanged(settings, ctl[f], combobox, f)
    /\ UNCHANGED <<registry, phase, error, window, atBind, toggles, hand,
                   applyResult, updates>>

\* a value is asked of an auto spin box: the box clamps it and emits
\* valueChanged(value) when its value changed
SpinnerSet(f, v) ==
    /\ UNCHANGED notWindow
    /\ phase = "open"
    /\ f \in DOMAIN ctl
    /\ ctl[f].widget = "QSpinBox"
    /\ LET spinner == setValue(ctl[f], v)
       IN /\ ctl' = [ctl EXCEPT ![f] = spinner]
          /\ settings' = valueChanged(settings, ctl[f], spinner, f)
    /\ UNCHANGED <<registry, phase, error, window, atBind, toggles, hand,
                   applyResult, updates>>

\* the same for the spin box of a FloatSpinSlider, in raw units
FloatSet(f, r) ==
    /\ UNCHANGED notWindow
    /\ phase = "open"
    /\ f \in DOMAIN ctl
    /\ ctl[f].widget = "FloatSpinSlider"
    /\ r \in RawInputs(ctl[f])
    /\ LET spinner == [ctl[f] EXCEPT !.spinner = setValue(@, r)]
       IN /\ ctl' = [ctl EXCEPT ![f] = spinner]
          /\ settings' = valueChangedFloat(settings, ctl[f], spinner, f)
    /\ UNCHANGED <<registry, phase, error, window, atBind, toggles, hand,
                   applyResult, updates>>

\* a slot connected to applySettings runs it with the controls as they now are
RunApplySettings(controls) ==
    LET R == applySettings(settings, controls)
    IN /\ settings' = R.settings
       /\ applyResult' = IF R.raised = "none" THEN "completed" ELSE R.raised
       /\ updates' = IF R.raised = "none" /\ updates < MaxUpdates
                     THEN updates + 1 ELSE updates

\* the user clicks a hand-written checkbox: toggled runs applySettings
HandToggle(c) ==
    /\ UNCHANGED notWindow
    /\ phase = "open"
    /\ c \in HandCheckboxes
    /\ hand' = [hand EXCEPT ![c] = ~@]
    /\ RunApplySettings(hand')
    /\ UNCHANGED <<registry, phase, error, window, ctl, atBind, toggles>>

\* a value is asked of a hand-written spin box: valueChanged runs applySettings
HandSpin(c, v) ==
    /\ UNCHANGED notWindow
    /\ phase = "open"
    /\ c \in HandSpinners
    /\ hand[c] # v
    /\ hand' = [hand EXCEPT ![c] = v]
    /\ RunApplySettings(hand')
    /\ UNCHANGED <<registry, phase, error, window, ctl, atBind, toggles>>

Next ==
    \/ OpenWindow
    \/ CloseWindow
    \/ \E f \in FieldNames(registry) : Toggle(f)
    \/ \E f \in FieldNames(registry) :
         \E text \in {FogChoices[i][1] : i \in DOMAIN FogChoices} : SelectText(f, text)
    \/ \E f \in FieldNames(registry) : \E v \in IntInputs : SpinnerSet(f, v)
    \/ \E f \in FieldNames(registry) :
         \E r \in (0 - Slack)..(2 * Divisor + Slack) : FloatSet(f, r)
    \/ \E c \in HandEventControls : HandToggle(c)
    \/ \E c \in HandEventControls :
         \E v \in {SmokeSpacingMin, SmokeSpacingMax} : HandSpin(c, v)

Spec == Init /\ [][Next]_vars

---------------------------------------------------------------------------
(* Properties.                                                              *)

Bound(widget) == {f \in DOMAIN ctl : ctl[f].widget = widget}

\* C1: while the window is open, every checkbox bound by add_checkbox_for shows
\* (invert ? not stored : stored): it starts so at construction, and after any
\* toggles the stored field is (invert ? not checked : checked).  With invert set
\* and False stored the box starts checked, and unchecking it stores True.
C1_CheckboxMirrorsStored ==
    phase = "open" =>
      \A f \in Bound("QCheckBox") :
        LET invert == DescOf(registry, f).invert
        IN /\ ctl[f].checked = (IF invert THEN ~settings[f] ELSE settings[f])
           /\ settings[f] = (IF invert THEN ~ctl[f].checked ELSE ctl[f].checked)
           /\ toggles[f] = 0 =>
                ctl[f].checked = (IF invert THEN ~atBind[f] ELSE atBind[f])
           /\ (invert /\ atBind[f] = FALSE /\ toggles[f] = 0) => ctl[f].checked
           /\ (invert /\ atBind[f] = FALSE /\ toggles[f] = 1) =>
                (~ctl[f].checked /\ settings[f] = TRUE)

\* the inverted box of the scenario was unchecked once: True is stored
C1_Witness ==
    /\ phase = "open"
    /\ "hide_x" \in Bound("QCheckBox")
    /\ DescOf(registry, "hide_x").invert
    /\ atBind["hide_x"] = FALSE
    /\ toggles["hide_x"] = 1
    /\ ~ctl["hide_x"].checked
    /\ settings["hide_x"] = TRUE

\* C2: toggling a bound checkbox twice (any even number of times) restores the
\* value the field had when the window was constructed, with and without invert.
C2_TwoTogglesRestore ==
    phase = "open" =>
      \A f \in Bound("QCheckBox") : toggles[f] = 2 => settings[f] = atBind[f]

\* both kinds of checkbox toggled twice
C2_Witness ==
    /\ phase = "open"
    /\ {"hide_x", "show_y"} \subseteq Bound("QCheckBox")
    /\ DescOf(registry, "hide_x").invert
    /\ ~DescOf(registry, "show_y").invert
    /\ toggles["hide_x"] = 2
    /\ toggles["show_y"] = 2

InRange(f, v) == DescOf(registry, f).min <= v /\ v <= DescOf(registry, f).max

\* C3 as stated: once the window is open over a Settings Instance, also one whose
\* stored value was loaded or written directly, every BoundedInt field bound by
\* add_spinner_for satisfies min <= value <= max.
C3_FieldAlwaysInRange ==
    phase = "open" => \A f \in Bound("QSpinBox") : InRange(f, settings[f])

\* C3 amended: the spin box clamps, so its own value is always within [min, max]
\* and every value its write-back writes to the field is within [min, max];
\* binding writes nothing, so a value loaded out of range stays until the box's
\* value changes.
C3_WritesInRange ==
    [][/\ \A f \in Bound("QSpinBox") :
            settings'[f] # settings[f] => InRange(f, settings'[f])
       /\ phase' = "open" =>
            \A f \in {g \in DOMAIN ctl' : ctl'[g].widget = "QSpinBox"} :
              /\ InRange(f, ctl'[f].value)
              /\ settings'[f] = ctl'[f].value \/ settings'[f] = atBind'[f]]_vars

\* a value loaded above max, then replaced by the box's clamped maximum
C3_Witness ==
    /\ phase = "open"
    /\ "limit" \in Bound("QSpinBox")
    /\ atBind["limit"] > IntMax
    /\ settings["limit"] = IntMax
    /\ ctl["limit"].value = IntMax

\* C4 as stated: every applySettings() call copies every hand-written control
\* into its settings field and ends with the game-updated broadcast.
C4_ApplySettingsCompletes ==
    applyResult # "none" =>
      /\ applyResult = "completed"
      /\ updates > 0
      /\ \A c \in DOMAIN hand : settings[FieldOfControl(c)] = hand[c]

\* C5: for a bound ChoicesOption the stored field is the value of the selected
\* text, and for every (text, value) pair text_for_value(value) names an item
\* whose reselection yields value again, also when two texts share a value.
C5_ChoicesRoundTrip ==
    phase = "open" =>
      \A f \in Bound("QComboBox") :
        LET description == DescOf(registry, f)
            choices == description.choices
        IN /\ settings[f] = ctl[f].items[ctl[f].index + 1][2]
           /\ \E i \in DOMAIN choices :
                /\ choices[i][1] = ctl[f].items[ctl[f].index + 1][1]
                /\ choices[i][2] = settings[f]
           /\ \A i \in DOMAIN choices :
                LET back == setCurrentText(
                                ctl[f], text_for_value(description, choices[i][2]))
                IN /\ back.items[back.index + 1][1] =
                        text_for_value(description, choices[i][2])
                   /\ back.items[back.index + 1][2] = choices[i][2]

\* the second of two texts with the same value was selected over another value
C5_Witness ==
    /\ phase = "open"
    /\ "fog" \in Bound("QComboBox")
    /\ atBind["fog"] = "all"
    /\ ctl["fog"].index = 2
    /\ settings["fog"] = "fog"
    /\ text_for_value(DescOf(registry, "fog"), "fog") = "Fog of war"

\* C6: construction leaves a combobox whose items are the choice mapping's
\* entries in iteration order, item i carrying the i-th value as its data, with
\* the item whose text is text_for_value(stored value) selected.
C6_ComboboxAsBuilt ==
    [][(phase # "open" /\ phase' = "open") =>
         \A f \in {g \in DOMAIN ctl' : ctl'[g].widget = "QComboBox"} :
           LET description == DescOf(registry, f)
               choices == description.choices
               combobox == ctl'[f]
           IN /\ Len(combobox.items) = Len(choices)
              /\ \A i \in DOMAIN choices :
                   /\ combobox.items[i][1] = choices[i][1]
                   /\ combobox.items[i][2] = choices[i][2]
              /\ combobox.index \in 0..(Len(choices) - 1)
              /\ combobox.items[combobox.index + 1][1]
                   = text_for_value(description, settings'[f])]_vars

\* a combobox as built over a stored value that is not the first choice
C6_Witness ==
    /\ phase = "open"
    /\ "fog" \in Bound("QComboBox")
    /\ atBind["fog"] = "fog"
    /\ settings["fog"] = "fog"
    /\ ctl["fog"].index = 1
    /\ Len(ctl["fog"].items) = 3

\* the value a control hands to its write-back callback
C7_ControlValue(f, w) ==
    CASE w.widget = "QCheckBox" ->
           IF DescOf(registry, f).invert THEN ~w.checked ELSE w.checked
      [] w.widget = "QComboBox" -> w.items[w.index + 1][2]
      [] w.widget = "QSpinBox" -> w.value
      [] w.widget = "FloatSpinSlider" -> (w.spinner.value * FloatDen) \div w.divisor

\* C7: an event of the control of field f writes field f only: the settings dict
\* keeps its keys, every other field keeps its value, and f holds the value the
\* control delivered (a checkbox's through its invert), not validated further.
C7_WriteBackFrame ==
    [][(phase = "open" /\ phase' = "open") =>
         \A f \in DOMAIN ctl :
           ctl'[f] # ctl[f] =>
             /\ DOMAIN settings' = DOMAIN settings
             /\ \A g \in (DOMAIN settings) \ {f} : settings'[g] = settings[g]
             /\ settings'[f] = C7_ControlValue(f, ctl'[f])]_vars

\* the spin box wrote its field, the slider's field beside it is as loaded
C7_Witness ==
    /\ phase = "open"
    /\ {"limit", "income"} \subseteq DOMAIN ctl
    /\ settings["limit"] # atBind["limit"]
    /\ settings["limit"] = ctl["limit"].value
    /\ settings["income"] = atBind["income"]

KnownKinds ==
    {"BooleanOption", "ChoicesOption", "BoundedFloatOption", "BoundedIntOption"}

\* no value control at (row, 1) of section s of page p, as far as it was built
C8_NoControlAt(p, s, row) ==
    (p \in DOMAIN window /\ s \in DOMAIN window[p].groups) =>
       <<row, 1>> \notin DOMAIN window[p].groups[s].cells

\* C8: a description of none of the four kinds makes the construction fail, with
\* TypeError (unless an earlier row failed first), and neither that field nor a
\* later field of its section has a value control or a connected callback.
C8_UnknownKindIsFatal ==
    phase \in {"open", "failed"} =>
      \A p \in DOMAIN Pages(registry) :
        \A s \in DOMAIN Sections(registry, Pages(registry)[p]) :
          LET fs == Fields(registry, Pages(registry)[p],
                           Sections(registry, Pages(registry)[p])[s])
          IN \A k \in DOMAIN fs :
               fs[k][2].kind \notin KnownKinds =>
                 /\ phase = "failed"
                 /\ error \in {"TypeError", "KeyError"}
                 /\ (p = 1 /\ s = 1 /\ \A j \in 1..(k - 1) : fs[j][1] \in DOMAIN atBind)
                      => error = "TypeError"
                 /\ \A j \in k..Len(fs) :
                      /\ fs[j][1] \notin DOMAIN ctl
                      /\ C8_NoControlAt(p, s, j - 1)

\* a TypeError after one row was bound, with a bindable field left unbound
C8_Witness ==
    /\ phase = "failed"
    /\ error = "TypeError"
    /\ "show_y" \in DOMAIN ctl
    /\ "relic" \in FieldNames(registry)
    /\ "hide_x" \in (DOMAIN settings) \ (DOMAIN ctl)

\* C9: a field of one of the four kinds that the Settings Instance lacks when the
\* window is constructed makes the construction fail (with KeyError, when no
\* unknown description is met first); the Settings Instance is left as it was
\* and the field is not created.
C9_MissingFieldIsFatal ==
    phase \in {"open", "failed"} =>
      \A f \in FieldNames(registry) :
        (f \notin DOMAIN atBind /\ DescOf(registry, f).kind \in KnownKinds) =>
          /\ phase = "failed"
          /\ error \in {"KeyError", "TypeError"}
          /\ (\A g \in FieldNames(registry) :
                DescOf(registry, g).kind \in KnownKinds) => error = "KeyError"
          /\ settings = atBind
          /\ f \notin DOMAIN settings
          /\ f \notin DOMAIN ctl

\* the float field is missing: KeyError after the spin box before it was bound
C9_Witness ==
    /\ phase = "failed"
    /\ error = "KeyError"
    /\ "income" \in FieldNames(registry)
    /\ "income" \notin DOMAIN settings
    /\ "limit" \in DOMAIN ctl

\* C10: the window's pages are the pages of Settings.pages() in order, each
\* page's groups the sections of Settings.sections(page) in order, and in each
\* group the label and the control of the i-th pair of Settings.fields(page,
\* section) (counting from 0) are at row i, and nothing else is in the grid.
C10_LayoutFollowsRegistry ==
    phase = "open" =>
      LET pages == Pages(registry)
      IN /\ Len(window) = Len(pages)
         /\ \A p \in DOMAIN pages :
              LET sections == Sections(registry, pages[p])
              IN /\ window[p].name = pages[p]
                 /\ Len(window[p].groups) = Len(sections)
                 /\ \A s \in DOMAIN sections :
                      LET fs == Fields(registry, pages[p], sections[s])
                          cells == window[p].groups[s].cells
                      IN /\ window[p].groups[s].title = sections[s]
                         /\ DOMAIN cells = (0..(Len(fs) - 1)) \X {0, 1}
                         /\ \A i \in DOMAIN fs :
                              /\ cells[<<i - 1, 1>>].field = fs[i][1]
                              /\ cells[<<i - 1, 0>>].widget = "QLabel"
                              /\ cells[<<i - 1, 0>>].text[1] = fs[i][2].text

\* pages declared interleaved: General before Campaign, and the second field of
\* General / Display, declared third, at row 1
C10_Witness ==
    /\ phase = "open"
    /\ Len(window) = 2
    /\ window[1].name = "General"
    /\ window[2].name = "Campaign"
    /\ registry[3].name = "hide_x"
    /\ <<1, 1>> \in DOMAIN window[1].groups[1].cells
    /\ window[1].groups[1].cells[<<1, 1>>].field = "hide_x"

\* C14: constructing the window (every AutoSettingsLayout of every page and
\* section, whatever the kinds of its options) leaves the Settings Instance as it
\* was, also when the construction fails and when a control shows a clamped
\* value; the Settings Instance changes only in a step in which a control of an
\* open window changes.
C14_BindingWritesNothing ==
    [][/\ phase # "open" => settings' = settings
       /\ settings' # settings =>
            /\ phase = "open" /\ phase' = "open"
            /\ \E f \in DOMAIN ctl : ctl'[f] # ctl[f]]_vars

\* a freshly bound window whose spin box clamped what it shows, and whose slider
\* truncated it, over fields that are still as loaded
C14_Witness ==
    /\ phase = "open"
    /\ "limit" \in Bound("QSpinBox")
    /\ "income" \in Bound("FloatSpinSlider")
    /\ settings = atBind
    /\ settings["limit"] > IntMax
    /\ ctl["limit"].value = IntMax
    /\ FloatValue(ctl["income"]) # settings["income"]

---------------------------------------------------------------------------
(* Several binders over one Settings Instance: every binder builds its own  *)
(* controls from the instance and writes back through its own closures;     *)
(* nothing tells a binder that another one wrote.                           *)

\* what a binder never touches
notBinders == <<windowVars, declVars, unitVars, boxVars, pageVars>>

BinderIds == {"a", "b"}

BinderRegistryIds == {"display", "campaign"}

\* the control of field f in binder b after an event, and the dict it leaves
BinderEvent(b, f, after, st) ==
    /\ binders' = [binders EXCEPT ![b] = [@ EXCEPT ![f] = after]]
    /\ settings' = st
    /\ lastWrite' = IF after # binders[b][f]
                    THEN DictSet(lastWrite, f, C7_ControlValue(f, after))
                    ELSE lastWrite
    /\ UNCHANGED <<registry, atBind, notBinders>>

InitBinders ==
    /\ \E id \in BinderRegistryIds, b1 \in BOOLEAN, b2 \in BOOLEAN, c \in ChoiceLoads,
          n \in IntLoads, x \in FloatLoads :
         LET loaded == [hide_x |-> b1, show_y |-> b2, fog |-> c, limit |-> n,
                        income |-> x]
         IN /\ registry = RegistryOf(id)
            /\ settings = [f \in FieldNames(RegistryOf(id)) |-> loaded[f]]
            /\ atBind = settings
    /\ NoWindow
    /\ NoDeclaration /\ NoUnits /\ NoBox /\ NoPages
    /\ binders = [b \in BinderIds |-> <<>>]
    /\ lastWrite = <<>>

\* a binder is constructed over the shared instance: AutoSettingsPage per page
Bind(b) ==
    /\ binders[b] = <<>>
    /\ LET W == QSettingsWindow(registry, settings)
       IN /\ W.error = "none"
          /\ binders' = [binders EXCEPT ![b] = W.ctl]
          /\ settings' = W.settings
    /\ UNCHANGED <<registry, atBind, notBinders, lastWrite>>

BinderToggle(b, f) ==
    /\ f \in DOMAIN binders[b]
    /\ binders[b][f].widget = "QCheckBox"
    /\ LET checkbox == setChecked(binders[b][f], ~binders[b][f].checked)
       IN BinderEvent(b, f, checkbox,
                      toggled(settings, binders[b][f], checkbox, f,
                              DescOf(registry, f)))

BinderSelectText(b, f, text) ==
    /\ f \in DOMAIN binders[b]
    /\ binders[b][f].widget = "QComboBox"
    /\ LET combobox == setCurrentText(binders[b][f], text)
       IN BinderEvent(b, f, combobox,
                      currentIndexChanged(settings, binders[b][f], combobox, f))

BinderSpinnerSet(b, f, v) ==
    /\ f \in DOMAIN binders[b]
    /\ binders[b][f].widget = "QSpinBox"
    /\ LET spinner == setValue(binders[b][f], v)
       IN BinderEvent(b, f, spinner,
                      valueChanged(settings, binders[b][f], spinner, f))

BinderFloatSet(b, f, r) ==
    /\ f \in DOMAIN binders[b]
    /\ binders[b][f].widget = "FloatSpinSlider"
    /\ r \in RawInputs(binders[b][f])
    /\ LET spinner == [binders[b][f] EXCEPT !.spinner = setValue(@, r)]
       IN BinderEvent(b, f, spinner,
                      valueChangedFloat(settings, binders[b][f], spinner, f))

NextBinders ==
    \/ \E b \in BinderIds : Bind(b)
    \/ \E b \in BinderIds : \E f \in FieldNames(registry) : BinderToggle(b, f)
    \/ \E b \in BinderIds : \E f \in FieldNames(registry) :
         \E text \in {FogChoices[i][1] : i \in DOMAIN FogChoices} :
           BinderSelectText(b, f, text)
    \/ \E b \in BinderIds : \E f \in FieldNames(registry) :
         \E v \in IntInputs : BinderSpinnerSet(b, f, v)
    \/ \E b \in BinderIds : \E f \in FieldNames(registry) :
         \E r \in (0 - Slack)..(2 * Divisor + Slack) : BinderFloatSet(b, f, r)

SpecBinders == InitBinders /\ [][NextBinders]_vars

\* C11: with several binders over one Settings Instance, after any interleaving
\* of their control events every field holds the value the most recent event of
\* one of its controls delivered, whichever binder it came from and whatever
\* the control had shown before (a field without an event is as loaded): no
\* event is dropped and none is checked against the stored value.
C11_LastWriteWins ==
    \A f \in DOMAIN settings :
      settings[f] = IF f \in DOMAIN lastWrite THEN lastWrite[f] ELSE atBind[f]

\* both binders wrote the field, binder b last, and binder a's spin box still
\* shows what a wrote, which is no longer the stored value
C11_Witness ==
    /\ binders["a"] # <<>> /\ binders["b"] # <<>>
    /\ "limit" \in DOMAIN lastWrite
    /\ binders["a"]["limit"].value = IntMin
    /\ binders["b"]["limit"].value = IntMax
    /\ atBind["limit"] = IntMin + 1
    /\ settings["limit"] = IntMax

---------------------------------------------------------------------------
(* Declaring a field with boolean_option and constructing a Settings        *)
(* Instance of the class that declares it.                                  *)

Texts == {"Show X", "Show Y"}
PageNames == {"General", "Campaign"}
SectionNames == {"Display", "Map"}
Details == {None, "Shows Y on the map"}
\* the arguments a declaration may leave to their defaults
Optional == {"invert", "detail"}

\* the name of the declared field
DeclaredField == "show_y"

notDeclaration == <<sessionVars, windowVars, binderVars, unitVars, boxVars, pageVars>>

\* a parameter's value: what was passed, or the parameter's default
Passed(a, parameter, default) == IF parameter \in a.given THEN a[parameter] ELSE default

\* Settings(): every dataclass field starts at the default its field carries
NewSettings(name, spec) == [f \in {name} |-> spec.default]

InitDeclare ==
    /\ args \in [text : Texts, page : PageNames, section : SectionNames,
                  default : BOOLEAN, invert : BOOLEAN, detail : Details,
                  given : SUBSET Optional]
    /\ fieldSpec = <<>>
    /\ instance = <<>>
    /\ NoSession /\ NoWindow /\ NoBinders /\ NoUnits /\ NoBox /\ NoPages

\* the class body runs: show_y: bool = boolean_option(...)
Declare ==
    /\ fieldSpec = <<>>
    /\ fieldSpec' = boolean_option(args.text, args.page, args.section, args.default,
                                   Passed(args, "invert", FALSE),
                                   Passed(args, "detail", None))
    /\ UNCHANGED <<args, instance, notDeclaration>>

\* Settings() : a fresh instance
Construct ==
    /\ fieldSpec # <<>>
    /\ instance' = NewSettings(DeclaredField, fieldSpec)
    /\ UNCHANGED <<args, fieldSpec, notDeclaration>>

\* the instance is dropped again
Discard ==
    /\ instance # <<>>
    /\ instance' = <<>>
    /\ UNCHANGED <<args, fieldSpec, notDeclaration>>

NextDeclare == Declare \/ Construct \/ Discard

SpecDeclare == InitDeclare /\ [][NextDeclare]_vars

\* C13: the field declared with boolean_option(text, page, section, default,
\* invert, detail) carries a BooleanOption whose page, section, text, detail and
\* invert are the arguments of those names (False and None when left out), and
\* every freshly constructed instance holds the declared default in the field.
C13_DeclarationKeepsArguments ==
    /\ fieldSpec # <<>> =>
         /\ fieldSpec.desc.kind = "BooleanOption"
         /\ fieldSpec.desc.page = args.page
         /\ fieldSpec.desc.section = args.section
         /\ fieldSpec.desc.text = args.text
         /\ "detail" \in args.given => fieldSpec.desc.detail = args.detail
         /\ "detail" \notin args.given => fieldSpec.desc.detail = None
         /\ "invert" \in args.given => fieldSpec.desc.invert = args.invert
         /\ "invert" \notin args.given => fieldSpec.desc.invert = FALSE
         /\ fieldSpec.default = args.default
    /\ instance # <<>> =>
         /\ DOMAIN instance = {DeclaredField}
         /\ instance[DeclaredField] = args.default

\* a fresh instance of a class whose field was declared with every argument
\* given: default True, invert True, a detail
C13_Witness ==
    /\ fieldSpec # <<>>
    /\ instance # <<>>
    /\ args.given = Optional
    /\ args.default = TRUE
    /\ args.invert = TRUE
    /\ args.detail = "Shows Y on the map"
    /\ instance[DeclaredField] = TRUE
    /\ fieldSpec.desc.invert = TRUE

---------------------------------------------------------------------------
(* GroundUnitType: the class-level registry of ground unit types and the    *)
(* restoring of a pickled unit type (game.dcs.groundunittype).              *)

\* register() calls made before the registry is full
MaxRegistered == 3

VariantIds == {"T-55", "T-72B"}
DcsTypes == {"T_55", "T_72B"}
SpawnWeights == {0, 1}
\* a spawn weight no registered unit type has
StaleWeight == 9

notUnits == <<sessionVars, windowVars, binderVars, declVars, boxVars, pageVars>>

\* a GroundUnitType instance is its __dict__
GroundUnitType(dcs_unit_type, variant_id, spawn_weight) ==
    [dcs_unit_type |-> dcs_unit_type, variant_id |-> variant_id,
     spawn_weight |-> spawn_weight]

UnitTypes ==
    {GroundUnitType(t, v, w) : t \in DcsTypes, v \in VariantIds, w \in SpawnWeights}

\* the unit types of the data directory, in the order _load_all registers them
Catalog == << GroundUnitType("T_55", "T-55", 1) >>

\* the class attributes, as one value
Class == [loaded |-> _loaded, by_name |-> _by_name, by_unit_type |-> _by_unit_type]

\* defaultdict(list).__getitem__ : a missing key is created with an empty list
Touch(d, k) == IF k \in DOMAIN d THEN d ELSE DictSet(d, k, <<>>)

\* register that keeps one entry per variant_id in the per-type list
register_once(K, unit_type) ==
    [K EXCEPT !.by_name = DictSet(@, unit_type.variant_id, unit_type),
              !.by_unit_type =
                  IF unit_type.variant_id \in DOMAIN K.by_name
                  THEN Touch(@, unit_type.dcs_unit_type)
                  ELSE DictSet(@, unit_type.dcs_unit_type,
                               Append(Touch(@, unit_type.dcs_unit_type)
                                          [unit_type.dcs_unit_type], unit_type))]

register(K, unit_type) ==
    [K EXCEPT !.by_name = DictSet(@, unit_type.variant_id, unit_type),
              !.by_unit_type =
                  DictSet(@, unit_type.dcs_unit_type,
                          Append(Touch(@, unit_type.dcs_unit_type)
                                     [unit_type.dcs_unit_type], unit_type))]

RECURSIVE RegisterAll(_, _, _)
RegisterAll(K, units, i) ==
    IF i > Len(units) THEN K ELSE RegisterAll(register(K, units[i]), units, i + 1)

\* UnitType._load_all: registers every unit type of the data directory
load_all(K) == [RegisterAll(K, Catalog, 1) EXCEPT !.loaded = TRUE]

\* named(): the class after the call, the exception raised, the value returned
named(K, name) ==
    LET L == IF ~K.loaded THEN load_all(K) ELSE K
    IN IF name \in DOMAIN L.by_name
       THEN [class |-> L, raised |-> "none", result |-> L.by_name[name]]
       ELSE [class |-> L, raised |-> "KeyError", result |-> <<>>]

\* for_dcs_type(), run to its end: the class after it and the values yielded
for_dcs_type(K, dcs_unit_type) ==
    LET L == IF ~K.loaded THEN load_all(K) ELSE K
        touched == [L EXCEPT !.by_unit_type = Touch(@, dcs_unit_type)]
    IN [class |-> touched, result |-> touched.by_unit_type[dcs_unit_type]]

\* __setstate__ that lets the persisted values win over the registered ones
setstate_persisted(K, state) ==
    IF "variant_id" \notin DOMAIN state
    THEN [class |-> K, raised |-> "KeyError", dict |-> <<>>]
    ELSE LET updated == named(K, state["variant_id"])
         IN IF updated.raised # "none"
            THEN [class |-> updated.class, raised |-> updated.raised, dict |-> <<>>]
            ELSE [class |-> updated.class, raised |-> "none",
                  dict |-> state @@ updated.result]

\* __setstate__: the class after it, the exception raised, and self.__dict__
setstate(K, state) ==
    IF "variant_id" \notin DOMAIN state
    THEN [class |-> K, raised |-> "KeyError", dict |-> <<>>]
    ELSE LET updated == named(K, state["variant_id"])
         IN IF updated.raised # "none"
            THEN [class |-> updated.class, raised |-> updated.raised, dict |-> <<>>]
            ELSE [class |-> updated.class, raised |-> "none",
                  dict |-> updated.result @@ state]

\* the pickled states a save may hold: current ones with values that have gone
\* stale, ones of an older class with a field the class no longer has, and one
\* that has no variant_id
Pickles ==
    LET current == {GroundUnitType(t, v, StaleWeight) : t \in {"T_72B"}, v \in VariantIds}
        older == {p @@ [name |-> "Tank"] : p \in current}
    IN current \cup older \cup {[dcs_unit_type |-> "T_55", name |-> "T-55"]}

\* the class attributes after a call
SetClass(K) ==
    /\ _loaded' = K.loaded
    /\ _by_name' = K.by_name
    /\ _by_unit_type' = K.by_unit_type

InitUnits ==
    /\ _loaded = FALSE
    /\ _by_name = <<>>
    /\ _by_unit_type = <<>>
    /\ registered = <<>>
    /\ restored = <<>>
    /\ NoSession /\ NoWindow /\ NoBinders /\ NoDeclaration /\ NoBox /\ NoPages

\* GroundUnitType.register(unit_type)
Register(unit_type) ==
    /\ Len(registered) < MaxRegistered
    /\ SetClass(register(Class, unit_type))
    /\ registered' = Append(registered, unit_type)
    /\ UNCHANGED <<restored, notUnits>>

\* what a call that finds the class not loaded registers first
Loading == IF _loaded THEN <<>> ELSE Catalog

\* GroundUnitType.named(name), the value returned or the KeyError dropped
Named(name) ==
    /\ SetClass(named(Class, name).class)
    /\ registered' = registered \o Loading
    /\ UNCHANGED <<restored, notUnits>>

\* GroundUnitType.for_dcs_type(dcs_unit_type), iterated to its end
ForDcsType(dcs_unit_type) ==
    /\ SetClass(for_dcs_type(Class, dcs_unit_type).class)
    /\ registered' = registered \o Loading
    /\ UNCHANGED <<restored, notUnits>>

\* unpickling calls __setstate__(state) on a new, empty instance
Restore(state) ==
    LET R == setstate(Class, state)
    IN /\ SetClass(R.class)
       /\ registered' = IF "variant_id" \in DOMAIN state
                        THEN registered \o Loading ELSE registered
       /\ restored' = [state |-> state, raised |-> R.raised, dict |-> R.dict]
       /\ UNCHANGED notUnits

NextUnits ==
    \/ \E unit_type \in UnitTypes : Register(unit_type)
    \/ \E name \in VariantIds : Named(name)
    \/ \E dcs_unit_type \in DcsTypes : ForDcsType(dcs_unit_type)
    \/ \E state \in Pickles : Restore(state)

SpecUnits == InitUnits /\ [][NextUnits]_vars

\* the register() calls, in order, made for unit types with this variant_id
RegisteredAs(calls, variant_id) ==
    SelectSeq(calls, LAMBDA u : u.variant_id = variant_id)

\* C15: a restore whose variant_id is registered leaves an instance whose every
\* field of the registered unit type has the registered value, whatever was
\* persisted (a persisted key the class no longer has is kept); a restore whose
\* variant_id is not registered, or absent, raises KeyError and leaves the
\* instance's __dict__ empty.
C15_RestoreTakesRegistered ==
    [][restored' # restored =>
         LET state == restored'.state
             mine == IF "variant_id" \in DOMAIN state
                     THEN RegisteredAs(registered', state["variant_id"]) ELSE <<>>
         IN IF mine # <<>>
            THEN LET current == mine[Len(mine)]
                 IN /\ restored'.raised = "none"
                    /\ DOMAIN restored'.dict = (DOMAIN current) \cup (DOMAIN state)
                    /\ \A k \in DOMAIN current : restored'.dict[k] = current[k]
                    /\ \A k \in (DOMAIN state) \ (DOMAIN current) :
                         restored'.dict[k] = state[k]
            ELSE /\ restored'.raised = "KeyError"
                 /\ restored'.dict = <<>>]_vars

\* a pickle of a T-72B variant with a stale weight and DCS type, restored after
\* the variant was registered twice: the second registration's values are there
C15_Witness ==
    /\ restored # <<>>
    /\ restored.raised = "none"
    /\ restored.state["variant_id"] = "T-72B"
    /\ Len(RegisteredAs(registered, "T-72B")) = 2
    /\ _by_name["T-72B"].dcs_unit_type = "T_55"
    /\ _by_name["T-72B"].spawn_weight = 1
    /\ RegisteredAs(registered, "T-72B")[1].spawn_weight = 0
    /\ restored.state["spawn_weight"] = StaleWeight
    /\ restored.dict["spawn_weight"] = 1
    /\ restored.dict["dcs_unit_type"] = "T_55"

\* C16: named(variant_id) returns the unit type of the latest register() call
\* with that variant_id (KeyError when there is none), for_dcs_type(t) yields the
\* unit types of the register() calls with DCS type t in call order, one per
\* call, and a unit type named() returns is among those for_dcs_type yields for
\* its DCS type.  A call that finds the class not loaded registers the data
\* directory's unit types first.
C16_RegistryFollowsCalls ==
    LET calls == registered \o Loading
    IN /\ \A v \in VariantIds :
            LET mine == RegisteredAs(calls, v)
                got == named(Class, v)
            IN IF mine = <<>> THEN got.raised = "KeyError"
               ELSE /\ got.raised = "none"
                    /\ got.result = mine[Len(mine)]
                    /\ got.result \in
                         Range(for_dcs_type(got.class, got.result.dcs_unit_type).result)
       /\ \A t \in DcsTypes :
            for_dcs_type(Class, t).result =
              SelectSeq(calls, LAMBDA u : u.dcs_unit_type = t)
       /\ \A v \in DOMAIN _by_name :
            /\ _by_name[v].dcs_unit_type \in DOMAIN _by_unit_type
            /\ _by_name[v] \in Range(_by_unit_type[_by_name[v].dcs_unit_type])

\* one variant registered twice for one DCS type, with another variant's call
\* between: two entries for it in the list, the later one under its name
C16_Witness ==
    /\ Len(registered) = 3
    /\ registered[1].variant_id = "T-72B"
    /\ registered[2].variant_id = "T-55"
    /\ registered[3].variant_id = "T-72B"
    /\ registered[1] # registered[3]
    /\ \A i \in 1..3 : registered[i].dcs_unit_type = "T_72B"
    /\ _by_name["T-72B"] = registered[3]
    /\ _by_unit_type["T_72B"] = registered

---------------------------------------------------------------------------
(* PilotSettingsBox: the hand-written group of the pilot and squadron       *)
(* settings, over game.settings.                                            *)

PilotLimitMin == 12
PilotLimitMax == 72
ReplenishmentRateMin == 1
ReplenishmentRateMax == 20

notBox == <<registry, atBind, windowVars, binderVars, declVars, unitVars, pageVars>>

setEnabled(w, enabled) == [enabled |-> enabled] @@ w

\* PilotSettingsBox.__init__: every control is given its state before its signal
\* is connected
PilotSettingsBox(st) ==
    [ai_pilot_levelling |->
         connect(setChecked(QCheckBox, st["ai_pilot_levelling"]),
                 "set_ai_pilot_leveling"),
     enable_squadron_pilot_limits |->
         connect(setChecked(QCheckBox, st["enable_squadron_pilot_limits"]),
                 "set_enable_squadron_pilot_limits"),
     pilot_limit |->
         connect(setEnabled(setValue(setMaximum(setMinimum(QSpinBox, PilotLimitMin),
                                                PilotLimitMax),
                                     st["squadron_pilot_limit"]),
                            st["enable_squadron_pilot_limits"]),
                 "set_squadron_pilot_limit"),
     squadron_replenishment_rate |->
         connect(setEnabled(setValue(setMaximum(setMinimum(QSpinBox,
                                                           ReplenishmentRateMin),
                                                ReplenishmentRateMax),
                                     st["squadron_replenishment_rate"]),
                            st["enable_squadron_pilot_limits"]),
                 "set_squadron_replenishment_rate")]

\* set_enable_squadron_pilot_limits that forgets the replenishment spinner
set_enable_squadron_pilot_limits_one(S, checked) ==
    [settings |-> DictSet(S.settings, "enable_squadron_pilot_limits", checked),
     box |-> [S.box EXCEPT !.pilot_limit = setEnabled(@, checked)]]

\* the slots, on the pair of the settings dict and the box's controls
set_enable_squadron_pilot_limits(S, checked) ==
    [settings |-> DictSet(S.settings, "enable_squadron_pilot_limits", checked),
     box |-> [S.box EXCEPT !.pilot_limit = setEnabled(@, checked),
                           !.squadron_replenishment_rate = setEnabled(@, checked)]]

set_squadron_pilot_limit(S, value) ==
    [S EXCEPT !.settings = DictSet(@, "squadron_pilot_limit", value)]

set_squadron_replenishment_rate(S, value) ==
    [S EXCEPT !.settings = DictSet(@, "squadron_replenishment_rate", value)]

set_ai_pilot_leveling(S, checked) ==
    [S EXCEPT !.settings = DictSet(@, "ai_pilot_levelling", checked)]

\* values a save may hold for a spin box's field, and values asked of the box
PilotLoads(min, max) == {min - Slack, min + 1, max + Slack}
PilotInputs(w) == {w.minimum - Slack, w.minimum, w.maximum, w.maximum + Slack}

InitBox ==
    /\ registry = <<>>
    /\ atBind = <<>>
    /\ settings \in
         [ai_pilot_levelling : BOOLEAN,
          enable_squadron_pilot_limits : BOOLEAN,
          squadron_pilot_limit : PilotLoads(PilotLimitMin, PilotLimitMax),
          squadron_replenishment_rate :
              PilotLoads(ReplenishmentRateMin, ReplenishmentRateMax)]
    /\ box = <<>>
    /\ NoWindow /\ NoBinders /\ NoDeclaration /\ NoUnits /\ NoPages

\* PilotSettingsBox(game)
OpenBox ==
    /\ box = <<>>
    /\ box' = PilotSettingsBox(settings)
    /\ UNCHANGED <<settings, notBox>>

CloseBox ==
    /\ box # <<>>
    /\ box' = <<>>
    /\ UNCHANGED <<settings, notBox>>

\* the state of the box and the settings after a slot ran
SlotRan(S) == box' = S.box /\ settings' = S.settings /\ UNCHANGED notBox

\* the user clicks the pilot-limits checkbox
ToggleLimits ==
    /\ box # <<>>
    /\ LET checkbox == setChecked(box.enable_squadron_pilot_limits,
                                  ~box.enable_squadron_pilot_limits.checked)
           S == [settings |-> settings,
                 box |-> [box EXCEPT !.enable_squadron_pilot_limits = checkbox]]
       IN SlotRan(set_enable_squadron_pilot_limits(S, checkbox.checked))

\* the user clicks the AI levelling checkbox
ToggleLevelling ==
    /\ box # <<>>
    /\ LET checkbox == setChecked(box.ai_pilot_levelling,
                                  ~box.ai_pilot_levelling.checked)
           S == [settings |-> settings,
                 box |-> [box EXCEPT !.ai_pilot_levelling = checkbox]]
       IN SlotRan(set_ai_pilot_leveling(S, checkbox.checked))

\* a value is asked of the enabled pilot-limit spin box
SetPilotLimit(v) ==
    /\ box # <<>>
    /\ box.pilot_limit.enabled
    /\ LET spinner == setValue(box.pilot_limit, v)
           S == [settings |-> settings, box |-> [box EXCEPT !.pilot_limit = spinner]]
       IN /\ spinner.value # box.pilot_limit.value
          /\ SlotRan(set_squadron_pilot_limit(S, spinner.value))

\* a value is asked of the enabled replenishment-rate spin box
SetReplenishmentRate(v) ==
    /\ box # <<>>
    /\ box.squadron_replenishment_rate.enabled
    /\ LET spinner == setValue(box.squadron_replenishment_rate, v)
           S == [settings |-> settings,
                 box |-> [box EXCEPT !.squadron_replenishment_rate = spinner]]
       IN /\ spinner.value # box.squadron_replenishment_rate.value
          /\ SlotRan(set_squadron_replenishment_rate(S, spinner.value))

NextBox ==
    \/ OpenBox
    \/ CloseBox
    \/ ToggleLimits
    \/ ToggleLevelling
    \/ \E v \in PilotInputs(setMaximum(setMinimum(QSpinBox, PilotLimitMin),
                                        PilotLimitMax)) : SetPilotLimit(v)
    \/ \E v \in PilotInputs(setMaximum(setMinimum(QSpinBox, ReplenishmentRateMin),
                                        ReplenishmentRateMax)) : SetReplenishmentRate(v)

SpecBox == InitBox /\ [][NextBox]_vars

\* C17: whenever a PilotSettingsBox exists, after its construction and after any
\* toggles, its two spin boxes are enabled exactly when
\* settings.enable_squadron_pilot_limits is true, and every value a step writes
\* to squadron_pilot_limit is within [12, 72] and to squadron_replenishment_rate
\* within [1, 20].
C17_SpinnersFollowCheckbox ==
    [][/\ box' # <<>> =>
            /\ box'.pilot_limit.enabled = settings'["enable_squadron_pilot_limits"]
            /\ box'.squadron_replenishment_rate.enabled
                 = settings'["enable_squadron_pilot_limits"]
            /\ box'.enable_squadron_pilot_limits.checked
                 = settings'["enable_squadron_pilot_limits"]
       /\ settings'["squadron_pilot_limit"] # settings["squadron_pilot_limit"] =>
            /\ PilotLimitMin <= settings'["squadron_pilot_limit"]
            /\ settings'["squadron_pilot_limit"] <= PilotLimitMax
       /\ settings'["squadron_replenishment_rate"]
             # settings["squadron_replenishment_rate"] =>
            /\ ReplenishmentRateMin <= settings'["squadron_replenishment_rate"]
            /\ settings'["squadron_replenishment_rate"] <= ReplenishmentRateMax]_vars

\* the limits were switched off after both spin boxes had written their clamped
\* extremes: both are disabled and the fields hold 72 and 1
C17_Witness ==
    /\ box # <<>>
    /\ ~settings["enable_squadron_pilot_limits"]
    /\ ~box.pilot_limit.enabled
    /\ ~box.squadron_replenishment_rate.enabled
    /\ settings["squadron_pilot_limit"] = PilotLimitMax
    /\ settings["squadron_replenishment_rate"] = ReplenishmentRateMin

---------------------------------------------------------------------------
(* QSettingsWindow.initUi: the category list beside the stacked pages, and  *)
(* onSelectionChanged, which shows the page of the current row.             *)

notPages == <<atBind, windowVars, binderVars, declVars, unitVars, boxVars>>

\* QStackedLayout(): its widgets in index order and the index of the shown one
QStackedLayout == [widgets |-> <<>>, currentIndex |-> -1]

\* QStackedLayout.addWidget: appended; the first widget becomes the current one
stackAddWidget(layout, w) ==
    [layout EXCEPT !.widgets = Append(@, w),
                   !.currentIndex = IF @ = -1 THEN 0 ELSE @]

\* QStackedLayout.setCurrentIndex: an index without a widget is ignored
stackSetCurrentIndex(layout, index) ==
    IF index \in 0..(Len(layout.widgets) - 1)
    THEN [layout EXCEPT !.currentIndex = index] ELSE layout

\* the pages initUi builds itself, in the order it adds them: the category's
\* name and the attribute of the window that holds the page widget
FixedPages ==
    << <<"Mission Generator", "generatorPage">>, <<"Cheat Menu", "cheatPage">>,
       <<"LUA Plugins", "pluginsPage">>,
       <<"LUA Plugins Options", "pluginsOptionsPage">> >>

\* the widget of an auto page, and the widget held by an attribute
AutoSettingsPage(page) == [widget |-> "AutoSettingsPage", page |-> page]
PageWidget(attribute) == [widget |-> attribute, page |-> None]

\* one appendRow / addWidget pair of initUi
AddCategory(U, name, w) ==
    [U EXCEPT !.categoryModel = Append(@, name),
              !.right_layout = stackAddWidget(@, w)]

RECURSIVE AddAutoCategories(_, _, _)
AddAutoCategories(U, pages, i) ==
    IF i > Len(pages) THEN U
    ELSE AddAutoCategories(AddCategory(U, pages[i].name, AutoSettingsPage(pages[i].name)),
                           pages, i + 1)

RECURSIVE AddFixedCategories(_, _)
AddFixedCategories(U, i) ==
    IF i > Len(FixedPages) THEN U
    ELSE AddFixedCategories(AddCategory(U, FixedPages[i][1], PageWidget(FixedPages[i][2])),
                            i + 1)

\* initUi that adds the plugin pages to the stack before it appends their rows
\* to a list that already has the cheat row
initUi_misaligned(pages, index) ==
    LET auto == AddAutoCategories([categoryModel |-> <<>>,
                                   right_layout |-> QStackedLayout], pages, 1)
        first == AddCategory(auto, FixedPages[1][1], PageWidget(FixedPages[1][2]))
        U == [categoryModel |-> first.categoryModel
                                \o <<FixedPages[2][1], FixedPages[3][1], FixedPages[4][1]>>,
              right_layout |->
                  stackAddWidget(stackAddWidget(stackAddWidget(first.right_layout,
                      PageWidget(FixedPages[3][2])), PageWidget(FixedPages[2][2])),
                      PageWidget(FixedPages[4][2]))]
    IN [categoryModel |-> U.categoryModel, right_layout |-> U.right_layout,
        selection |-> [current |-> index, selected |-> index, connected |-> TRUE]]

\* initUi over self.pages: the rows and the stack, and the selection model after
\* setCurrentIndex(index, Select) and the connect that follows it; index is what
\* categoryList.indexAt(QPoint(1, 1)) gave: row 0, or -1 for no item
initUi(pages, index) ==
    LET U == AddFixedCategories(
                 AddAutoCategories([categoryModel |-> <<>>,
                                    right_layout |-> QStackedLayout], pages, 1), 1)
    IN [categoryModel |-> U.categoryModel, right_layout |-> U.right_layout,
        selection |-> [current |-> index, selected |-> index, connected |-> TRUE]]

\* onSelectionChanged: the stack after the slot ran
onSelectionChanged(layout, sel) == stackSetCurrentIndex(layout, sel.current)

\* selectionChanged reaches the slot when the selected row changed
selectionChanged(layout, before, after) ==
    IF before.connected /\ after.selected # before.selected
    THEN onSelectionChanged(layout, after) ELSE layout

\* the Settings classes whose windows are built: three fields on any pages
PageRegistries ==
    {<<>>}
    \cup {<< D_show_y(p1, "Display") >> : p1 \in PageNames}
    \cup {<< D_show_y(p1, "Display"), D_fog(p2, "Map") >> :
            p1 \in PageNames, p2 \in PageNames}
    \cup {<< D_show_y(p1, "Display"), D_fog(p2, "Map"), D_hide_x(p3, "Display") >> :
            p1 \in PageNames, p2 \in PageNames, p3 \in PageNames}

Rows == 0..(Len(categoryModel) - 1)

InitPages ==
    /\ registry \in PageRegistries
    /\ settings = [f \in FieldNames(registry) |->
                     registry[CHOOSE i \in DOMAIN registry : registry[i].name = f].default]
    /\ atBind = <<>>
    /\ NoPages
    /\ NoWindow /\ NoBinders /\ NoDeclaration /\ NoUnits /\ NoBox

\* QSettingsWindow(game): self.pages, then initUi
OpenPages ==
    /\ categoryModel = <<>>
    /\ LET W == QSettingsWindow(registry, settings)
       IN /\ W.error = "none"
          /\ settings' = W.settings
          /\ \E index \in {0, -1} :
               LET U == initUi(W.pages, index)
               IN /\ categoryModel' = U.categoryModel
                  /\ right_layout' = U.right_layout
                  /\ selection' = U.selection
    /\ UNCHANGED <<registry, notPages>>

ClosePages ==
    /\ categoryModel # <<>>
    /\ categoryModel' = <<>>
    /\ right_layout' = <<>>
    /\ selection' = <<>>
    /\ UNCHANGED <<registry, settings, notPages>>

\* the selection model went from selection to after
Selected(after) ==
    /\ selection' = after
    /\ right_layout' = selectionChanged(right_layout, selection, after)
    /\ UNCHANGED <<registry, settings, categoryModel, notPages>>

\* a click on a row: it becomes the current row and the only selected one
Click(row) ==
    /\ categoryModel # <<>>
    /\ row \in Rows
    /\ Selected([selection EXCEPT !.current = row, !.selected = row])

\* a Ctrl+click on a row: it becomes the current row, and it is deselected when
\* it was the selected one
CtrlClick(row) ==
    /\ categoryModel # <<>>
    /\ row \in Rows
    /\ Selected([selection EXCEPT !.current = row,
                                  !.selected = IF @ = row THEN -1 ELSE row])

\* Ctrl+arrow: the current row moves, the selection stays
MoveCurrent(row) ==
    /\ categoryModel # <<>>
    /\ row \in Rows
    /\ Selected([selection EXCEPT !.current = row])

MaxRows == Cardinality(PageNames) + Len(FixedPages)

NextPages ==
    \/ OpenPages
    \/ ClosePages
    \/ \E row \in 0..(MaxRows - 1) : Click(row)
    \/ \E row \in 0..(MaxRows - 1) : CtrlClick(row)
    \/ \E row \in 0..(MaxRows - 1) : MoveCurrent(row)

SpecPages == InitPages /\ [][NextPages]_vars

\* the category a page widget of the stack belongs to
C18_CategoryOf(w) ==
    IF w.widget = "AutoSettingsPage" THEN w.page
    ELSE FixedPages[CHOOSE i \in DOMAIN FixedPages : FixedPages[i][2] = w.widget][1]

\* C18: in a constructed window the category list has the auto pages in
\* Settings.pages() order and then Mission Generator, Cheat Menu, LUA Plugins and
\* LUA Plugins Options; widget i of the stack is the page of row i; and whenever
\* a row is selected, at construction and after any clicks, the stack shows the
\* page of that row.
C18_ListAndStackAligned ==
    categoryModel # <<>> =>
      LET pages == Pages(registry)
          widgets == right_layout.widgets
      IN /\ categoryModel = pages \o [i \in DOMAIN FixedPages |-> FixedPages[i][1]]
         /\ Len(widgets) = Len(categoryModel)
         /\ \A i \in DOMAIN widgets : C18_CategoryOf(widgets[i]) = categoryModel[i]
         /\ \A i \in DOMAIN pages : widgets[i] = AutoSettingsPage(pages[i])
         /\ right_layout.currentIndex \in Rows
         /\ selection.selected # -1 =>
              /\ right_layout.currentIndex = selection.selected
              /\ C18_CategoryOf(widgets[right_layout.currentIndex + 1])
                   = categoryModel[selection.selected + 1]

\* two auto pages, declared Campaign first; the Cheat Menu row is selected and
\* its page shown, while the current row has moved on to another category
C18_Witness ==
    /\ categoryModel # <<>>
    /\ Len(categoryModel) = 6
    /\ categoryModel[1] = "Campaign"
    /\ categoryModel[2] = "General"
    /\ selection.selected = 3
    /\ selection.current = 0
    /\ categoryModel[selection.selected + 1] = "Cheat Menu"
    /\ right_layout.widgets[right_layout.currentIndex + 1].widget = "cheatPage"

===========================================================================
